---- MODULE Spec2Model ----
(***************************************************************************)
(* Model of the claude-code-warmup cron handlers.                          *)
(*   src/api/warmup.ts    : the rotation handler (Redis-backed refresh     *)
(*                          token, OAuth exchange, rotation persistence)   *)
(*   src/unnamed/part_000 : the no-rotation handler (long-lived token)     *)
(* An invocation is a process; its steps are the stretches of the async    *)
(* handler between two awaited external calls.                             *)
(***************************************************************************)
EXTENDS Integers, Sequences, FiniteSets, TLC

(***************************************************************************)
(* JavaScript values that occur in the handlers: undefined, null, strings. *)
(***************************************************************************)
Undefined == [t |-> "undefined", v |-> ""]
Null == [t |-> "null", v |-> ""]
Str(s) == [t |-> "string", v |-> s]

\* JS truthiness of a string | null | undefined value: `if (x)`, `!x`, `x && ...`
Truthy(x) == x.t = "string" /\ x.v /= ""

\* `x ?? d`
Coalesce(x, d) == IF x.t \in {"undefined", "null"} THEN d ELSE x

\* `x || d`
OrElse(x, d) == IF Truthy(x) THEN x ELSE d

\* `${x}` inside a template literal
Template(x) == IF x.t = "string" THEN x.v ELSE x.t

\* `Bearer ${x}`
Bearer(x) == Str("Bearer " \o Template(x))

\* Outcome of a call: a returned value or a thrown Error(message).
Ok(x) == [threw |-> FALSE, val |-> x]
Throw(m) == [threw |-> TRUE, val |-> m]

(***************************************************************************)
(* Program constants.                                                      *)
(***************************************************************************)
KV_REFRESH_TOKEN_KEY == "claude_refresh_token"
DEFAULT_WARMUP_MESSAGE ==
    "Hello! This is an automated warm-up message to reset my Claude Code rate limit window. Please just say 'Warmed up!' in response."

(***************************************************************************)
(* Bounds and input sets.                                                  *)
(***************************************************************************)
MaxInvocations == 2

Procs == {1, 2}
Handlers == {"rotation", "static"}

Secrets == {Undefined, Str(""), Str("s3cret")}
AuthHeaders == {Undefined, Str("Bearer s3cret"), Str("Bearer undefined"),
                Str("Bearer "), Str("s3cret")}
SeedTokens == {Undefined, Str(""), Str("seed-1")}
StoredTokens == {Null, Str(""), Str("stored-7")}
RedisUrls == {Undefined, Str("redis://kv")}
OAuthTokens == {Undefined, Str("oat-1")}
\* WARMUP_MESSAGE is left unset: the default text is sent.
Messages == {Undefined}

VARIABLES
    env,              \* process.env
    kv,               \* the value under KV_REFRESH_TOKEN_KEY in Redis (Null: no key)
    clock,            \* number of invocations started so far (the time source)
    pc,               \* where each invocation stands
    handler,          \* which handler this deployment serves
    authorization,    \* req.headers.authorization
    timestamp,        \* const timestamp
    warmupMessage,    \* const warmupMessage
    refreshToken,     \* const refreshToken
    accessToken,      \* const accessToken (oauthToken in the no-rotation handler)
    newRefreshToken,  \* const newRefreshToken
    calls,            \* the external calls each invocation made, in order
    res,              \* the responses each invocation sent
    provider,         \* the OAuth provider behind OAUTH_TOKEN_URL
    events            \* the steps of the functions called on their own, in order

vars == <<env, kv, clock, pc, handler, authorization, timestamp, warmupMessage,
          refreshToken, accessToken, newRefreshToken, calls, res, provider, events>>

locals == <<timestamp, warmupMessage, refreshToken, accessToken, newRefreshToken>>

(***************************************************************************)
(* External replies the handlers can observe.                              *)
(***************************************************************************)
\* A fetch() outcome: a rejected promise, or a response with a status line,
\* a raw body text and the parsed JSON body.
Rejected(m) == [rejected |-> TRUE, message |-> m, status |-> 0,
                statusText |-> "", text |-> "", json |-> <<>>]
Response(st, stText, txt, js) == [rejected |-> FALSE, message |-> "", status |-> st,
                                  statusText |-> stText, text |-> txt, json |-> js]

IssuedRefreshTokens == {Undefined, Null, Str(""), Str("seed-1"), Str("stored-7"),
                        Str("rotated-9")}

TokenBodies ==
    {[access_token |-> Str("a1"), refresh_token |-> r] : r \in IssuedRefreshTokens}
    \cup {[access_token |-> Undefined, refresh_token |-> Undefined]}

TokenReplies ==
    {Rejected("fetch failed"),
     Response(401, "Unauthorized", "invalid_grant", <<>>)}
    \cup {Response(200, "OK", "json", b) : b \in TokenBodies}

Block(ty, tx) == [type |-> ty, text |-> tx]
Contents == {<<Block("thinking", Undefined)>>,
             <<Block("thinking", Undefined), Block("text", Str("Warmed up!"))>>}

ChatReplies ==
    {Response(429, "Too Many Requests", "rate_limited", <<>>)}
    \cup {Response(200, "OK", "json", [content |-> c]) : c \in Contents}

\* What one Redis client does for a function: the command (get or set) and the
\* quit() of the finally block each return a reply or are rejected.
StoreError == <<"Connection is closed.">>
QuitError == <<"Stream isn't writeable">>
QuitReplies == {Ok(Str("OK")), Throw(QuitError)}
GetReplies(stored) == {Ok(stored), Throw(StoreError)}
SetReplies == {Ok(Str("OK")), Throw(StoreError)}
ReadReplies(stored) ==
    {[cmd |-> c, quit |-> q] : c \in {Ok(stored), Throw(StoreError)}, q \in QuitReplies}
WriteReplies ==
    {[cmd |-> c, quit |-> q] : c \in {Ok(Str("OK")), Throw(StoreError)}, q \in QuitReplies}

(***************************************************************************)
(* The functions of the handlers.                                          *)
(***************************************************************************)
\* response.ok
IsOk(response) == response.status >= 200 /\ response.status <= 299

\* Whether an error message (a sequence of text parts) contains a part.
Contains(msg, part) == \E k \in DOMAIN msg : msg[k] = part

RedisUrlError ==
    <<"REDIS_URL", " env var is not set. Link a Redis store in your Vercel project.">>

getRedis(url) == IF ~Truthy(url) THEN Throw(RedisUrlError) ELSE Ok(url)

NoRefreshTokenError ==
    <<"No refresh token found. Add ", "CLAUDE_REFRESH_TOKEN",
      " env var as initial seed -- subsequent rotated tokens will be stored in Redis automatically.">>

\* Faulty variant: the seed is consulted before the store.
resolveSeedFirst(url, read, envToken) ==
    LET redis == getRedis(url) IN
    IF redis.threw THEN redis
    ELSE IF read.quit.threw THEN read.quit
    ELSE IF read.cmd.threw THEN read.cmd
    ELSE IF Truthy(envToken) THEN Ok(envToken)
    ELSE IF Truthy(read.cmd.val) THEN Ok(read.cmd.val)
    ELSE Throw(NoRefreshTokenError)

\* Faulty variant: the seed is returned without testing that it is set.
resolveWithoutSeedCheck(url, read, envToken) ==
    LET redis == getRedis(url) IN
    IF redis.threw THEN redis
    ELSE IF read.quit.threw THEN read.quit
    ELSE IF read.cmd.threw THEN read.cmd
    ELSE IF Truthy(read.cmd.val) THEN Ok(read.cmd.val)
    ELSE Ok(envToken)

\* Faulty variant: a rejected read is caught and treated as an empty store.
resolveTreatingErrorAsEmpty(url, read, envToken) ==
    LET redis == getRedis(url) IN
    IF redis.threw THEN redis
    ELSE IF ~read.cmd.threw /\ ~read.quit.threw /\ Truthy(read.cmd.val)
         THEN Ok(read.cmd.val)
    ELSE IF ~Truthy(envToken) THEN Throw(NoRefreshTokenError)
    ELSE Ok(envToken)

\* resolveRefreshToken(): `read` holds the outcomes of redis.get(KV_REFRESH_TOKEN_KEY)
\* and of the redis.quit() in the finally block, whose rejection replaces whatever
\* the try block returned or threw.
resolveRefreshToken(url, read, envToken) ==
    LET redis == getRedis(url) IN
    IF redis.threw THEN redis
    ELSE IF read.quit.threw THEN read.quit
    ELSE IF read.cmd.threw THEN read.cmd
    ELSE IF Truthy(read.cmd.val) THEN Ok(read.cmd.val)
    ELSE IF ~Truthy(envToken) THEN Throw(NoRefreshTokenError)
    ELSE Ok(envToken)

\* Faulty variant: a rejected write is caught and dropped.
persistSwallowingErrors(url, write) ==
    LET redis == getRedis(url) IN
    IF redis.threw THEN redis ELSE Ok(Undefined)

\* persistRefreshToken(token): `write` holds the outcomes of redis.set(key, token)
\* and of the redis.quit() in the finally block.
persistRefreshToken(url, write) ==
    LET redis == getRedis(url) IN
    IF redis.threw THEN redis
    ELSE IF write.quit.threw THEN write.quit
    ELSE IF write.cmd.threw THEN write.cmd
    ELSE Ok(Undefined)

\* Faulty variant: the write never reaches the store.
StoreAfterLostSet(stored, url, write, token) == stored

\* Faulty variant: a failed SET leaves the key deleted.
StoreClearedByFailedSet(stored, url, write, token) ==
    IF getRedis(url).threw THEN stored
    ELSE IF write.cmd.threw THEN Null
    ELSE token

\* Faulty variant: a conditional write (SET .. NX) that keeps an existing value.
StoreAfterSetIfAbsent(stored, url, write, token) ==
    IF getRedis(url).threw \/ write.cmd.threw THEN stored
    ELSE IF Truthy(stored) THEN stored
    ELSE token

\* The value under the key after persistRefreshToken(token) ran.
StoreAfterSet(stored, url, write, token) ==
    IF getRedis(url).threw \/ write.cmd.threw THEN stored ELSE token

\* Faulty variant: the message leaves out the status code.
TokenRefreshErrorWithoutStatus(response) ==
    <<"Token refresh failed: ", response.statusText, " -- ", response.text>>

TokenRefreshError(response) ==
    <<"Token refresh failed: ", ToString(response.status), " ", response.statusText,
      " -- ", response.text>>

\* refreshAccessToken(refreshToken): `response` is the outcome of the fetch.
refreshAccessToken(response) ==
    IF response.rejected THEN Throw(<<response.message>>)
    ELSE IF ~IsOk(response) THEN Throw(TokenRefreshError(response))
    ELSE Ok([accessToken |-> response.json.access_token,
             newRefreshToken |-> Coalesce(response.json.refresh_token, Null)])

AnthropicApiError(response) ==
    <<"Anthropic API error: ", ToString(response.status), " ", response.statusText,
      " -- ", response.text>>

\* Faulty variant: the last text block is taken instead of the first.
LastText(content) ==
    LET hits == {k \in DOMAIN content : content[k].type = "text"} IN
    IF hits = {} THEN Str("(no text)")
    ELSE LET last == CHOOSE k \in hits : \A m \in hits : k >= m
         IN Coalesce(content[last].text, Str("(no text)"))

\* data.content.find((b) => b.type === "text")?.text ?? "(no text)"
FirstText(content) ==
    LET hits == {k \in DOMAIN content : content[k].type = "text"} IN
    IF hits = {} THEN Str("(no text)")
    ELSE LET first == CHOOSE k \in hits : \A m \in hits : k <= m
         IN Coalesce(content[first].text, Str("(no text)"))

\* sendWarmupMessage(accessToken, message): `response` is the outcome of the fetch.
sendWarmupMessage(response) ==
    IF response.rejected THEN Throw(<<response.message>>)
    ELSE IF ~IsOk(response) THEN Throw(AnthropicApiError(response))
    ELSE Ok(FirstText(response.json.content))

\* Faulty variant: the gate without the test that the secret is configured.
AuthorizedWithoutSecretCheck(cronSecret, header) == header = Bearer(cronSecret)

\* The gate of both handlers.
Authorized(cronSecret, header) ==
    ~(~Truthy(cronSecret) \/ header /= Bearer(cronSecret))

\* Faulty variant: any issued refresh token is persisted, rotated or not.
ShouldPersistAnyIssued(new, old) == Truthy(new)

\* Faulty variant: the comparison of the rotation test is inverted.
ShouldPersistInverted(new, old) == Truthy(new) /\ new = old

\* `newRefreshToken && newRefreshToken !== refreshToken`
ShouldPersist(new, old) == Truthy(new) /\ new /= old

\* `newRefreshToken !== null && newRefreshToken !== refreshToken`
TokenRotatedFlag(new, old) == new /= Null /\ new /= old

(***************************************************************************)
(* Responses.                                                              *)
(***************************************************************************)
Unauthorized == [status |-> 401, body |-> [error |-> "Unauthorized"]]

OAuthTokenError ==
    <<"CLAUDE_CODE_OAUTH_TOKEN",
      " env var is not set. Run 'claude setup-token' to generate a long-lived token.">>

MissingOAuthToken == [status |-> 500, body |-> [error |-> OAuthTokenError]]

Failure(error, ts) ==
    [status |-> 500, body |-> [success |-> FALSE, error |-> error, timestamp |-> ts]]

RotationSuccess(reply, rotated, ts) ==
    [status |-> 200,
     body |-> [success |-> TRUE, message |-> "Warmup sent successfully!",
               claudeReply |-> reply, tokenRotated |-> rotated, timestamp |-> ts]]

StaticSuccess(reply, ts) ==
    [status |-> 200,
     body |-> [success |-> TRUE, message |-> "Warmup sent successfully!",
               claudeReply |-> reply, timestamp |-> ts]]

\* One observed call of an invocation: what was called, with which argument
\* (the key, the token, the Authorization header), and what came back.
Call(op, arg, reply) == [op |-> op, arg |-> arg, reply |-> reply]

\* The provider's state: the refresh token it expects next, the one it served
\* last, how many it has issued, and whether an answer in which it granted a
\* token failed to reach the handler. AnyProvider stands for a provider of which
\* nothing is assumed: its answers are then drawn from TokenReplies.
AnyProvider ==
    [expected |-> Undefined, lastUsed |-> Undefined, issued |-> 0, lost |-> FALSE]

\* process.env of a deployment: each variant reads its own settings.
Environments(h) ==
    IF h = "rotation"
    THEN [CRON_SECRET : Secrets, CLAUDE_REFRESH_TOKEN : SeedTokens,
          REDIS_URL : RedisUrls, CLAUDE_CODE_OAUTH_TOKEN : {Undefined},
          WARMUP_MESSAGE : Messages]
    ELSE [CRON_SECRET : Secrets, CLAUDE_REFRESH_TOKEN : {Undefined},
          REDIS_URL : {Undefined}, CLAUDE_CODE_OAUTH_TOKEN : OAuthTokens,
          WARMUP_MESSAGE : Messages]

(***************************************************************************)
(* State machine.                                                          *)
(***************************************************************************)
Init ==
    /\ handler \in Handlers
    /\ env \in Environments(handler)
    /\ kv \in IF handler = "rotation" THEN StoredTokens ELSE {Null}
    /\ clock = 0
    /\ pc = [i \in Procs |-> "idle"]
    /\ authorization = [i \in Procs |-> Undefined]
    /\ timestamp = [i \in Procs |-> 0]
    /\ warmupMessage = [i \in Procs |-> Undefined]
    /\ refreshToken = [i \in Procs |-> Undefined]
    /\ accessToken = [i \in Procs |-> Undefined]
    /\ newRefreshToken = [i \in Procs |-> Undefined]
    /\ calls = [i \in Procs |-> <<>>]
    /\ res = [i \in Procs |-> <<>>]
    /\ provider = AnyProvider
    /\ events = <<>>

InFlight(i) == pc[i] \notin {"idle", "done"}

\* res.status(..).json(..) followed by the handler's return.
Respond(i, response) ==
    /\ pc' = [pc EXCEPT ![i] = "done"]
    /\ res' = [res EXCEPT ![i] = Append(@, response)]

\* Faulty variant: a failed token exchange is retried once before it is reported.
CatchRetryingExchange(i, error) ==
    IF pc[i] = "exchange" /\ \A k \in DOMAIN calls[i] : calls[i][k].op /= "fetch.token"
    THEN UNCHANGED <<pc, res>>
    ELSE Respond(i, Failure(error, timestamp[i]))

\* Faulty variant: a failure before the dispatch is swallowed and the chat request
\* is sent all the same.
CatchAndGoOn(i, error) ==
    IF pc[i] \in {"dispatch", "dispatch.body"}
    THEN Respond(i, Failure(error, timestamp[i]))
    ELSE /\ pc' = [pc EXCEPT ![i] = "dispatch"]
         /\ UNCHANGED res

\* The catch block of the handler.
Catch(i, error) == Respond(i, Failure(error, timestamp[i]))

\* A request arrives: the handler runs up to its first awaited call.
Begin(i, auth) ==
    /\ ~InFlight(i)
    /\ clock' = clock + 1
    /\ authorization' = [authorization EXCEPT ![i] = auth]
    /\ calls' = [calls EXCEPT ![i] = <<>>]
    /\ refreshToken' = [refreshToken EXCEPT ![i] = Undefined]
    /\ newRefreshToken' = [newRefreshToken EXCEPT ![i] = Undefined]
    /\ UNCHANGED <<events, env, kv, handler, provider>>
    /\ IF ~Authorized(env.CRON_SECRET, auth)
       THEN /\ pc' = [pc EXCEPT ![i] = "done"]
            /\ res' = [res EXCEPT ![i] = <<Unauthorized>>]
            /\ timestamp' = [timestamp EXCEPT ![i] = 0]
            /\ warmupMessage' = [warmupMessage EXCEPT ![i] = Undefined]
            /\ accessToken' = [accessToken EXCEPT ![i] = Undefined]
       ELSE IF handler = "static" /\ ~Truthy(env.CLAUDE_CODE_OAUTH_TOKEN)
       THEN /\ pc' = [pc EXCEPT ![i] = "done"]
            /\ res' = [res EXCEPT ![i] = <<MissingOAuthToken>>]
            /\ timestamp' = [timestamp EXCEPT ![i] = 0]
            /\ warmupMessage' = [warmupMessage EXCEPT ![i] = Undefined]
            /\ accessToken' = [accessToken EXCEPT ![i] = Undefined]
       ELSE /\ pc' = [pc EXCEPT ![i] = IF handler = "static" THEN "dispatch" ELSE "source"]
            /\ res' = [res EXCEPT ![i] = <<>>]
            /\ timestamp' = [timestamp EXCEPT ![i] = clock']
            /\ warmupMessage' = [warmupMessage EXCEPT ![i] =
                                   OrElse(env.WARMUP_MESSAGE, Str(DEFAULT_WARMUP_MESSAGE))]
            /\ accessToken' = [accessToken EXCEPT ![i] =
                                 IF handler = "static" THEN env.CLAUDE_CODE_OAUTH_TOKEN
                                 ELSE Undefined]

\* A request arrives, within the number of invocations considered. Which of two
\* unused slots a request takes makes no difference: the lowest one is taken.
Invoke(i, auth) ==
    /\ clock < MaxInvocations
    /\ \A j \in Procs : j < i => pc[j] /= "idle"
    /\ Begin(i, auth)

\* The reply of the call this invocation made last.
LastReply(i) == calls[i][Len(calls[i])].reply

\* Step 1 of the rotation handler, await resolveRefreshToken(), up to its first
\* await: getRedis(), then `await redis.get(KV_REFRESH_TOKEN_KEY)` is answered.
Source(i, got) ==
    /\ pc[i] = "source"
    /\ IF getRedis(env.REDIS_URL).threw
       THEN /\ Catch(i, getRedis(env.REDIS_URL).val)
            /\ UNCHANGED calls
       ELSE /\ calls' = [calls EXCEPT ![i] =
                           Append(@, Call("redis.get", Str(KV_REFRESH_TOKEN_KEY), got))]
            /\ pc' = [pc EXCEPT ![i] = "source.quit"]
            /\ UNCHANGED res
    /\ UNCHANGED <<events, env, kv, clock, handler, authorization, locals, provider>>

\* The `await redis.quit()` of the finally block is answered, and
\* resolveRefreshToken returns or throws.
SourceQuit(i, quit) ==
    /\ pc[i] = "source.quit"
    /\ LET r == resolveRefreshToken(env.REDIS_URL, [cmd |-> LastReply(i), quit |-> quit],
                                    env.CLAUDE_REFRESH_TOKEN) IN
       /\ calls' = [calls EXCEPT ![i] = Append(@, Call("redis.quit", Undefined, quit))]
       /\ IF r.threw
          THEN /\ Catch(i, r.val)
               /\ UNCHANGED refreshToken
          ELSE /\ refreshToken' = [refreshToken EXCEPT ![i] = r.val]
               /\ pc' = [pc EXCEPT ![i] = "exchange"]
               /\ UNCHANGED res
    /\ UNCHANGED <<events, env, kv, clock, handler, authorization, timestamp, warmupMessage,
                   accessToken, newRefreshToken, provider>>

\* Step 2, await refreshAccessToken(refreshToken), up to its first await: the
\* `await fetch(OAUTH_TOKEN_URL, ..)` is answered (status line and headers) or rejected.
Exchange(i, response) ==
    /\ pc[i] = "exchange"
    /\ calls' = [calls EXCEPT ![i] = Append(@, Call("fetch.token", refreshToken[i], response))]
    /\ IF response.rejected
       THEN Catch(i, refreshAccessToken(response).val)
       ELSE /\ pc' = [pc EXCEPT ![i] = "exchange.body"]
            /\ UNCHANGED res
    /\ UNCHANGED <<events, env, kv, clock, handler, authorization, locals>>

\* The exchange against a provider of which nothing is assumed.
AnyExchange(i, response) ==
    /\ Exchange(i, response)
    /\ UNCHANGED provider

\* The body arrives (`await response.json()`, or `await response.text()` of a
\* non-ok response): refreshAccessToken returns or throws; then the rotation test
\* and the call of persistRefreshToken.
ExchangeBody(i) ==
    /\ pc[i] = "exchange.body"
    /\ LET r == refreshAccessToken(LastReply(i)) IN
       IF r.threw
       THEN /\ Catch(i, r.val)
            /\ UNCHANGED <<calls, accessToken, newRefreshToken>>
       ELSE /\ accessToken' = [accessToken EXCEPT ![i] = r.val.accessToken]
            /\ newRefreshToken' = [newRefreshToken EXCEPT ![i] = r.val.newRefreshToken]
            /\ UNCHANGED res
            /\ IF ShouldPersist(r.val.newRefreshToken, refreshToken[i])
               THEN /\ calls' = [calls EXCEPT ![i] =
                                   Append(@, Call("persistRefreshToken",
                                                  r.val.newRefreshToken, Undefined))]
                    /\ pc' = [pc EXCEPT ![i] = "persist"]
               ELSE /\ UNCHANGED calls
                    /\ pc' = [pc EXCEPT ![i] = "dispatch"]
    /\ UNCHANGED <<events, env, kv, clock, handler, authorization, timestamp, warmupMessage,
                   refreshToken, provider>>

\* Step 3, await persistRefreshToken(newRefreshToken), up to its first await:
\* getRedis(), then `await redis.set(KV_REFRESH_TOKEN_KEY, token)` is answered.
Persist(i, set) ==
    /\ pc[i] = "persist"
    /\ IF getRedis(env.REDIS_URL).threw
       THEN /\ Catch(i, getRedis(env.REDIS_URL).val)
            /\ UNCHANGED <<kv, calls>>
       ELSE /\ kv' = StoreAfterSet(kv, env.REDIS_URL, [cmd |-> set, quit |-> set],
                                   newRefreshToken[i])
            /\ calls' = [calls EXCEPT ![i] =
                           Append(@, Call("redis.set", newRefreshToken[i], set))]
            /\ pc' = [pc EXCEPT ![i] = "persist.quit"]
            /\ UNCHANGED res
    /\ UNCHANGED <<events, env, clock, handler, authorization, locals, provider>>

\* The `await redis.quit()` of the finally block is answered, and
\* persistRefreshToken returns or throws.
PersistQuit(i, quit) ==
    /\ pc[i] = "persist.quit"
    /\ LET r == persistRefreshToken(env.REDIS_URL, [cmd |-> LastReply(i), quit |-> quit]) IN
       /\ calls' = [calls EXCEPT ![i] = Append(@, Call("redis.quit", Undefined, quit))]
       /\ IF r.threw
          THEN Catch(i, r.val)
          ELSE /\ pc' = [pc EXCEPT ![i] = "dispatch"]
               /\ UNCHANGED res
    /\ UNCHANGED <<events, env, kv, clock, handler, authorization, locals, provider>>

\* Step 4 (the only step of the no-rotation handler), await sendWarmupMessage(..),
\* up to its first await: the `await fetch(ANTHROPIC_API_URL, ..)` is answered
\* or rejected.
Dispatch(i, response) ==
    /\ pc[i] = "dispatch"
    /\ calls' = [calls EXCEPT ![i] =
                   Append(@, Call("fetch.chat", Bearer(accessToken[i]), response))]
    /\ IF response.rejected
       THEN Catch(i, sendWarmupMessage(response).val)
       ELSE /\ pc' = [pc EXCEPT ![i] = "dispatch.body"]
            /\ UNCHANGED res
    /\ UNCHANGED <<events, env, kv, clock, handler, authorization, locals, provider>>

\* The body arrives (`await response.json()`, or `await response.text()` of a
\* non-ok response): sendWarmupMessage returns or throws; then the success response.
DispatchBody(i) ==
    /\ pc[i] = "dispatch.body"
    /\ LET r == sendWarmupMessage(LastReply(i)) IN
       IF r.threw
       THEN Catch(i, r.val)
       ELSE Respond(i, IF handler = "static"
                       THEN StaticSuccess(r.val, timestamp[i])
                       ELSE RotationSuccess(r.val,
                                TokenRotatedFlag(newRefreshToken[i], refreshToken[i]),
                                timestamp[i]))
    /\ UNCHANGED <<events, env, kv, clock, handler, authorization, locals, provider, calls>>

Next ==
    \E i \in Procs :
        \/ \E auth \in AuthHeaders : Invoke(i, auth)
        \/ \E got \in GetReplies(kv) : Source(i, got)
        \/ \E quit \in QuitReplies : SourceQuit(i, quit)
        \/ \E response \in TokenReplies : AnyExchange(i, response)
        \/ ExchangeBody(i)
        \/ \E set \in SetReplies : Persist(i, set)
        \/ \E quit \in QuitReplies : PersistQuit(i, quit)
        \/ \E response \in ChatReplies : Dispatch(i, response)
        \/ DispatchBody(i)

Spec == Init /\ [][Next]_vars

\* The scheduler's normal case: an invocation starts only when none is in flight.
InvokeAlone(i, auth) ==
    /\ \A j \in Procs : ~InFlight(j)
    /\ Invoke(i, auth)

NextSeq ==
    \E i \in Procs :
        \/ \E auth \in AuthHeaders : InvokeAlone(i, auth)
        \/ \E got \in GetReplies(kv) : Source(i, got)
        \/ \E quit \in QuitReplies : SourceQuit(i, quit)
        \/ \E response \in TokenReplies : AnyExchange(i, response)
        \/ ExchangeBody(i)
        \/ \E set \in SetReplies : Persist(i, set)
        \/ \E quit \in QuitReplies : PersistQuit(i, quit)
        \/ \E response \in ChatReplies : Dispatch(i, response)
        \/ DispatchBody(i)

SpecSeq == Init /\ [][NextSeq]_vars

(***************************************************************************)
(* A provider that rotates: every exchange it grants replaces the refresh  *)
(* token by a fresh one and invalidates the one sent.  A second request    *)
(* with the token it has just replaced is either refused or granted again  *)
(* (a provider may or may not tolerate the replay of an overlapping        *)
(* client); any other token is refused with invalid_grant.                 *)
(***************************************************************************)
Fresh(n) == Str("rotated-" \o ToString(n))

Granted(n) ==
    Response(200, "OK", "json", [access_token |-> Str("a1"), refresh_token |-> Fresh(n)])

InvalidGrant == Response(401, "Unauthorized", "invalid_grant", <<>>)

ProviderAnswers(p, sent) ==
    LET rotate == [reply |-> Granted(p.issued + 1),
                   after |-> [expected |-> Fresh(p.issued + 1), lastUsed |-> sent,
                              issued |-> p.issued + 1, lost |-> p.lost]]
        refuse == [reply |-> InvalidGrant, after |-> p]
    IN IF sent = p.expected THEN {rotate}
       ELSE IF sent = p.lastUsed THEN {rotate, refuse}
       ELSE {refuse}

\* The store answers every command.
OkRead(stored) == [cmd |-> Ok(stored), quit |-> Ok(Str("OK"))]
OkWrite == [cmd |-> Ok(Str("OK")), quit |-> Ok(Str("OK"))]

\* What resolveRefreshToken() returns when called now with the store answering.
WouldResolve == resolveRefreshToken(env.REDIS_URL, OkRead(kv), env.CLAUDE_REFRESH_TOKEN)

\* A configured rotation deployment whose token (stored or bootstrap) is the
\* one the provider accepts.
InitRotating ==
    /\ handler = "rotation"
    /\ env \in Environments(handler)
    /\ env.CRON_SECRET = Str("s3cret")
    /\ env.REDIS_URL = Str("redis://kv")
    /\ kv \in StoredTokens
    /\ ~WouldResolve.threw
    /\ provider = [expected |-> WouldResolve.val, lastUsed |-> Undefined, issued |-> 0,
                   lost |-> FALSE]
    /\ clock = 0
    /\ pc = [i \in Procs |-> "idle"]
    /\ authorization = [i \in Procs |-> Undefined]
    /\ timestamp = [i \in Procs |-> 0]
    /\ warmupMessage = [i \in Procs |-> Undefined]
    /\ refreshToken = [i \in Procs |-> Undefined]
    /\ accessToken = [i \in Procs |-> Undefined]
    /\ newRefreshToken = [i \in Procs |-> Undefined]
    /\ calls = [i \in Procs |-> <<>>]
    /\ res = [i \in Procs |-> <<>>]
    /\ events = <<>>

SourceOk(i) == Source(i, OkRead(kv).cmd)

SourceQuitOk(i) == SourceQuit(i, OkRead(kv).quit)

PersistOk(i) == Persist(i, OkWrite.cmd)

PersistQuitOk(i) == PersistQuit(i, OkWrite.quit)

\* The exchange answered by the rotating provider.
ProviderExchange(i) ==
    \E a \in ProviderAnswers(provider, refreshToken[i]) :
        /\ Exchange(i, a.reply)
        /\ provider' = a.after

\* The request never reaches the provider.
ExchangeUnreachable(i) == AnyExchange(i, Rejected("fetch failed"))

\* The request reaches the provider, which answers it, but the answer is lost on
\* its way back: `await fetch(OAUTH_TOKEN_URL, ..)` is rejected all the same.
ExchangeLost(i) ==
    \E a \in ProviderAnswers(provider, refreshToken[i]) :
        /\ Exchange(i, Rejected("fetch failed"))
        /\ provider' = [a.after EXCEPT !.lost = @ \/ a.reply.status = 200]

\* What `await response.json()` or `await response.text()` throws when the
\* connection breaks while the body is read.
BodyError == <<"terminated">>

\* The response has arrived but its body cannot be read: refreshAccessToken throws.
ExchangeBodyLost(i) ==
    /\ pc[i] = "exchange.body"
    /\ calls' = [calls EXCEPT ![i] = Append(@, Call("response.body", Undefined,
                                                    Throw(BodyError)))]
    /\ Catch(i, BodyError)
    /\ provider' = [provider EXCEPT !.lost = @ \/ LastReply(i).status = 200]
    /\ UNCHANGED <<events, env, kv, clock, handler, authorization, locals>>

\* Invocations one at a time against the rotating provider.
NextRotSeq ==
    \E i \in Procs :
        \/ \E auth \in AuthHeaders : InvokeAlone(i, auth)
        \/ SourceOk(i)
        \/ SourceQuitOk(i)
        \/ ProviderExchange(i)
        \/ ExchangeUnreachable(i)
        \/ ExchangeLost(i)
        \/ ExchangeBody(i)
        \/ ExchangeBodyLost(i)
        \/ PersistOk(i)
        \/ PersistQuitOk(i)
        \/ \E response \in ChatReplies : Dispatch(i, response)
        \/ DispatchBody(i)

SpecRotSeq == InitRotating /\ [][NextRotSeq]_vars

\* The scheduler and a manual trigger fire together: the first MaxInvocations
\* requests may overlap.
InvokeOverlapping(i) == Invoke(i, Str("Bearer s3cret"))

\* The next scheduled request arrives when the overlapping ones have finished,
\* and runs alone.
InvokeNextPeriod(i) ==
    /\ clock = MaxInvocations
    /\ \A j \in Procs : ~InFlight(j)
    /\ Begin(i, Str("Bearer s3cret"))

NextRace ==
    \E i \in Procs :
        \/ InvokeOverlapping(i)
        \/ InvokeNextPeriod(i)
        \/ SourceOk(i)
        \/ SourceQuitOk(i)
        \/ ProviderExchange(i)
        \/ ExchangeBody(i)
        \/ PersistOk(i)
        \/ PersistQuitOk(i)
        \/ \E response \in ChatReplies : Dispatch(i, response)
        \/ DispatchBody(i)

SpecRace == InitRotating /\ [][NextRace]_vars

(***************************************************************************)
(* The functions called on their own, as a test calls them against an      *)
(* in-memory store and canned replies.  A call runs in a task; every await *)
(* of the function is a step of its own, so a second call can start, run   *)
(* and return while the first one is suspended.  pc[i] is the await task i *)
(* is suspended at, calls[i] what the call has done so far, and events the *)
(* steps of all tasks in the order they happened.                          *)
(***************************************************************************)
MaxUnitSteps == 6

PersistTokens == {Str(""), Str("seed-1"), Str("rotated-9")}

UnitContents ==
    Contents \cup
    {<<>>,
     <<Block("text", Str("first")), Block("text", Str("second"))>>,
     <<Block("thinking", Undefined), Block("text", Str("")), Block("text", Str("later"))>>}

UnitChatReplies ==
    {Rejected("fetch failed")}
    \cup ChatReplies
    \cup {Response(200, "OK", "json", [content |-> c]) : c \in UnitContents}

\* One step of a task: the function is called ("call"), an awaited call is
\* answered ("await"), or the last awaited call is answered and the function
\* returns or throws `result` ("return").
Event(ev, task, call, result) ==
    [ev |-> ev, task |-> task, op |-> call.op, arg |-> call.arg,
     reply |-> call.reply, result |-> result]

\* A deployment as Init describes it; the gate plays no part here.
InitUnit ==
    /\ Init
    /\ env.CRON_SECRET = Str("s3cret")

UnitFrame ==
    UNCHANGED <<env, clock, handler, authorization, locals, res, provider>>

\* Task i is free and the trace has room for one more step. Which of two free
\* tasks runs a call makes no difference: the lowest one does.
UnitFree(i) ==
    /\ pc[i] = "idle"
    /\ \A j \in Procs : j < i => pc[j] /= "idle"
    /\ Len(events) < MaxUnitSteps

\* Task i is suspended at `await`.
UnitAt(i, await) ==
    /\ pc[i] = await
    /\ Len(events) < MaxUnitSteps

\* The function called in task i starts its first awaited call.
UnitStart(i, call, await) ==
    /\ pc' = [pc EXCEPT ![i] = await]
    /\ calls' = [calls EXCEPT ![i] = <<call>>]
    /\ events' = Append(events, Event("call", i, call, Undefined))

\* The awaited call of task i is answered and the function goes on to `await`.
UnitAwait(i, call, await) ==
    /\ pc' = [pc EXCEPT ![i] = await]
    /\ calls' = [calls EXCEPT ![i] = Append(@, call)]
    /\ events' = Append(events, Event("await", i, call, Undefined))

\* The function called in task i returns or throws `result`; `reply` is what
\* its last awaited call answered.
UnitReturn(i, call, result) ==
    /\ pc' = [pc EXCEPT ![i] = "idle"]
    /\ calls' = [calls EXCEPT ![i] = <<>>]
    /\ events' = Append(events, Event("return", i, call, result))

\* persistRefreshToken(token) is called: getRedis(), then redis.set is sent.
UnitPersist(i, token) ==
    /\ handler = "rotation"
    /\ UnitFree(i)
    /\ IF getRedis(env.REDIS_URL).threw
       THEN UnitReturn(i, Call("persistRefreshToken", token, Undefined),
                       getRedis(env.REDIS_URL))
       ELSE UnitStart(i, Call("persistRefreshToken", token, Undefined), "persist.set")
    /\ UNCHANGED kv
    /\ UnitFrame

\* `await redis.set(KV_REFRESH_TOKEN_KEY, token)` is answered.
UnitPersistSet(i, set) ==
    /\ UnitAt(i, "persist.set")
    /\ kv' = StoreAfterSet(kv, env.REDIS_URL, [cmd |-> set, quit |-> set], calls[i][1].arg)
    /\ UnitAwait(i, Call("redis.set", calls[i][1].arg, set), "persist.quit")
    /\ UnitFrame

\* `await redis.quit()` of the finally block is answered; persistRefreshToken
\* returns or throws.
UnitPersistQuit(i, quit) ==
    /\ UnitAt(i, "persist.quit")
    /\ UnitReturn(i, Call("persistRefreshToken", calls[i][1].arg, quit),
                  persistRefreshToken(env.REDIS_URL, [cmd |-> LastReply(i), quit |-> quit]))
    /\ UNCHANGED kv
    /\ UnitFrame

\* resolveRefreshToken() is called: getRedis(), then redis.get is sent.
UnitResolve(i) ==
    /\ handler = "rotation"
    /\ UnitFree(i)
    /\ IF getRedis(env.REDIS_URL).threw
       THEN UnitReturn(i, Call("resolveRefreshToken", Undefined, Undefined),
                       getRedis(env.REDIS_URL))
       ELSE UnitStart(i, Call("resolveRefreshToken", Undefined, Undefined), "resolve.get")
    /\ UNCHANGED kv
    /\ UnitFrame

\* `await redis.get(KV_REFRESH_TOKEN_KEY)` is answered with what the store holds
\* at that moment.
UnitResolveGet(i, got) ==
    /\ UnitAt(i, "resolve.get")
    /\ UnitAwait(i, Call("redis.get", Str(KV_REFRESH_TOKEN_KEY), got), "resolve.quit")
    /\ UNCHANGED kv
    /\ UnitFrame

\* `await redis.quit()` of the finally block is answered; resolveRefreshToken
\* returns the value read earlier, or the bootstrap value, or throws.
UnitResolveQuit(i, quit) ==
    /\ UnitAt(i, "resolve.quit")
    /\ UnitReturn(i, Call("resolveRefreshToken", Undefined, quit),
                  resolveRefreshToken(env.REDIS_URL, [cmd |-> LastReply(i), quit |-> quit],
                                      env.CLAUDE_REFRESH_TOKEN))
    /\ UNCHANGED kv
    /\ UnitFrame

\* sendWarmupMessage(accessToken, message) is called: the request is sent.
UnitSend(i) ==
    /\ UnitFree(i)
    /\ UnitStart(i, Call("sendWarmupMessage", Str("a1"), Undefined), "send.fetch")
    /\ UNCHANGED kv
    /\ UnitFrame

\* `await fetch(ANTHROPIC_API_URL, ..)`, sent with the header
\* 'Authorization: Bearer <accessToken>', is rejected, and sendWarmupMessage
\* throws at once; or it is answered: the response has arrived, its body has not
\* been read.
UnitSendFetch(i, response) ==
    /\ UnitAt(i, "send.fetch")
    /\ LET fetch == Call("fetch.chat", Bearer(calls[i][1].arg), response) IN
       IF response.rejected
       THEN /\ pc' = [pc EXCEPT ![i] = "idle"]
            /\ calls' = [calls EXCEPT ![i] = <<>>]
            /\ events' = events \o
                   <<Event("await", i, fetch, Undefined),
                     Event("return", i, Call("sendWarmupMessage", calls[i][1].arg, response),
                           sendWarmupMessage(response))>>
       ELSE UnitAwait(i, fetch, "send.body")
    /\ UNCHANGED kv
    /\ UnitFrame

\* `await response.text()` or `await response.json()` is answered;
\* sendWarmupMessage returns or throws.
UnitSendBody(i) ==
    /\ UnitAt(i, "send.body")
    /\ UnitReturn(i, Call("sendWarmupMessage", calls[i][1].arg, LastReply(i)),
                  sendWarmupMessage(LastReply(i)))
    /\ UNCHANGED kv
    /\ UnitFrame

\* Calls of the two store functions, overlapping at will.
NextUnit ==
    \E i \in Procs :
        \/ \E token \in PersistTokens : UnitPersist(i, token)
        \/ \E set \in SetReplies : UnitPersistSet(i, set)
        \/ \E quit \in QuitReplies : UnitPersistQuit(i, quit)
        \/ UnitResolve(i)
        \/ \E got \in GetReplies(kv) : UnitResolveGet(i, got)
        \/ \E quit \in QuitReplies : UnitResolveQuit(i, quit)

SpecUnit == InitUnit /\ [][NextUnit]_vars

\* Calls of sendWarmupMessage, overlapping at will.
NextSend ==
    \E i \in Procs :
        \/ UnitSend(i)
        \/ \E response \in UnitChatReplies : UnitSendFetch(i, response)
        \/ UnitSendBody(i)

SpecSend == InitUnit /\ [][NextSend]_vars

(***************************************************************************)
(* Observations used by the properties.                                    *)
(***************************************************************************)
\* The positions in invocation i's call log where `op` was called.
CallsOf(i, op) == {k \in DOMAIN calls[i] : calls[i][k].op = op}

\* The request carries exactly 'Bearer <CRON_SECRET>' and the secret is configured.
CorrectHeader(i) ==
    /\ env.CRON_SECRET.t = "string"
    /\ env.CRON_SECRET.v /= ""
    /\ authorization[i].t = "string"
    /\ authorization[i].v = "Bearer " \o env.CRON_SECRET.v

\* Invocation i has answered with the failure response {success: false, error, timestamp}.
FailedWith500(i) ==
    /\ pc[i] = "done"
    /\ Len(res[i]) = 1
    /\ res[i][1].status = 500
    /\ DOMAIN res[i][1].body = {"success", "error", "timestamp"}
    /\ res[i][1].body.success = FALSE

\* The token exchange of invocation i was answered with a 2xx response, and its
\* body has been read.
ExchangeSucceeded(i, k) ==
    /\ k \in CallsOf(i, "fetch.token")
    /\ pc[i] /= "exchange.body"
    /\ ~calls[i][k].reply.rejected
    /\ calls[i][k].reply.status \in 200..299

(***************************************************************************)
(* C1. An invocation whose Authorization header is not exactly             *)
(* 'Bearer <CRON_SECRET>', or whose CRON_SECRET is unset or empty, is      *)
(* answered 401 {error: "Unauthorized"} and makes no store read, no store  *)
(* write, no token-exchange request and no chat request (both handlers).   *)
(***************************************************************************)
C1_GateRejectsBeforeAnyCall ==
    \A i \in Procs :
        (pc[i] /= "idle" /\ ~CorrectHeader(i)) =>
            /\ pc[i] = "done"
            /\ res[i] = <<[status |-> 401, body |-> [error |-> "Unauthorized"]]>>
            /\ calls[i] = <<>>

\* A request presenting 'Bearer undefined' to a deployment without CRON_SECRET
\* has been rejected.
C1_Witness ==
    \E i \in Procs :
        /\ pc[i] = "done"
        /\ env.CRON_SECRET = Undefined
        /\ authorization[i] = Str("Bearer undefined")
        /\ res[i] = <<Unauthorized>>

(***************************************************************************)
(* C2 as stated: after a 2xx exchange whose body carries a refresh-token   *)
(* string different from the one sent (the empty string included),         *)
(* persistRefreshToken is invoked exactly once, with that value; when the  *)
(* field is omitted or equals the token sent, it is not invoked.           *)
(***************************************************************************)
C2_Original ==
    \A i \in Procs : \A k \in DOMAIN calls[i] :
        ExchangeSucceeded(i, k) =>
            LET issued == calls[i][k].reply.json.refresh_token
                sent == calls[i][k].arg
                persists == CallsOf(i, "persistRefreshToken")
            IN IF issued.t = "string" /\ issued /= sent
               THEN /\ Cardinality(persists) = 1
                    /\ \A p \in persists : calls[i][p].arg = issued
               ELSE issued \in {Undefined, sent} => persists = {}

(***************************************************************************)
(* C2 amended: after a 2xx exchange whose body carries a NON-EMPTY         *)
(* refresh-token string different from the one sent, persistRefreshToken   *)
(* is invoked exactly once, with that value; when the field is omitted,    *)
(* null, the empty string, or equal to the token sent, it is not invoked.  *)
(***************************************************************************)
C2_PersistOnceIffRotatedNonEmpty ==
    \A i \in Procs : \A k \in DOMAIN calls[i] :
        ExchangeSucceeded(i, k) =>
            LET issued == calls[i][k].reply.json.refresh_token
                sent == calls[i][k].arg
                persists == CallsOf(i, "persistRefreshToken")
            IN IF issued.t = "string" /\ issued.v /= "" /\ issued /= sent
               THEN /\ Cardinality(persists) = 1
                    /\ \A p \in persists : calls[i][p].arg = issued
               ELSE persists = {}

\* 'stored-7' was sent, 'rotated-9' came back, and persistRefreshToken('rotated-9')
\* was invoked.
C2_Witness ==
    \E i \in Procs : \E k \in DOMAIN calls[i] :
        /\ ExchangeSucceeded(i, k)
        /\ calls[i][k].arg = Str("stored-7")
        /\ calls[i][k].reply.json.refresh_token = Str("rotated-9")
        /\ \E p \in CallsOf(i, "persistRefreshToken") : calls[i][p].arg = Str("rotated-9")

(***************************************************************************)
(* C3. In every 200 response of the rotation handler, tokenRotated is true *)
(* if and only if persistRefreshToken was invoked in that invocation.      *)
(***************************************************************************)
C3_FlagIffPersisted ==
    \A i \in Procs :
        (handler = "rotation" /\ pc[i] = "done" /\ res[i][1].status = 200) =>
            (res[i][1].body.tokenRotated <=> CallsOf(i, "persistRefreshToken") /= {})

(***************************************************************************)
(* Further observations.                                                   *)
(***************************************************************************)
\* Invocation i has used a Redis client for its read and both awaits have been
\* answered: calls 1 and 2 are the get and the quit.
ReadDone(i) ==
    /\ handler = "rotation"
    /\ CallsOf(i, "redis.get") = {1}
    /\ Len(calls[i]) >= 2

\* Invocation i's read of the key succeeded (get and quit) and returned `stored`.
ReadReturned(i, stored) ==
    /\ ReadDone(i)
    /\ ~calls[i][1].reply.threw
    /\ ~calls[i][2].reply.threw
    /\ calls[i][1].reply.val = stored

\* A non-empty string.
NonEmpty(x) == x.t = "string" /\ x.v /= ""

(***************************************************************************)
(* C4. When the store holds a non-empty value under the key,               *)
(* resolveRefreshToken returns that value, whatever CLAUDE_REFRESH_TOKEN   *)
(* is: the invocation goes on to the exchange with the stored value, never *)
(* with the bootstrap value.                                               *)
(***************************************************************************)
C4_StoreTakesPrecedence ==
    \A i \in Procs : \A stored \in StoredTokens \cup IssuedRefreshTokens :
        (ReadReturned(i, stored) /\ NonEmpty(stored)) =>
            /\ refreshToken[i] = stored
            /\ pc[i] = "exchange" \/ CallsOf(i, "fetch.token") /= {}
            /\ \A k \in CallsOf(i, "fetch.token") : calls[i][k].arg = stored

\* The store held 'stored-7' while CLAUDE_REFRESH_TOKEN was 'seed-1', and the
\* invocation resolved 'stored-7'.
C4_Witness ==
    \E i \in Procs :
        /\ ReadReturned(i, Str("stored-7"))
        /\ env.CLAUDE_REFRESH_TOKEN = Str("seed-1")
        /\ refreshToken[i] = Str("stored-7")
        /\ pc[i] = "exchange"

(***************************************************************************)
(* C5. When the store read succeeds and returns nothing (no key, or an     *)
(* empty value), resolveRefreshToken returns CLAUDE_REFRESH_TOKEN if it is *)
(* set (non-empty); otherwise it fails with an error naming                *)
(* CLAUDE_REFRESH_TOKEN, the invocation answers 500 and makes no exchange, *)
(* no persistence and no chat request.                                     *)
(***************************************************************************)
C5_SeedWhenStoreEmpty ==
    \A i \in Procs : \A stored \in {Null, Str("")} :
        ReadReturned(i, stored) =>
            IF NonEmpty(env.CLAUDE_REFRESH_TOKEN)
            THEN /\ refreshToken[i] = env.CLAUDE_REFRESH_TOKEN
                 /\ pc[i] = "exchange" \/ CallsOf(i, "fetch.token") /= {}
                 /\ \A k \in CallsOf(i, "fetch.token") :
                        calls[i][k].arg = env.CLAUDE_REFRESH_TOKEN
            ELSE /\ FailedWith500(i)
                 /\ Contains(res[i][1].body.error, "CLAUDE_REFRESH_TOKEN")
                 /\ Len(calls[i]) = 2

\* The store was empty and no seed was configured: the invocation failed.
C5_Witness ==
    \E i \in Procs :
        /\ ReadReturned(i, Null)
        /\ env.CLAUDE_REFRESH_TOKEN = Undefined
        /\ FailedWith500(i)

(***************************************************************************)
(* C6. A store read that errors (redis.get or the client's quit rejected,  *)
(* or REDIS_URL missing) is not treated as an empty store: the error is    *)
(* propagated, the bootstrap value is not used, no exchange is attempted   *)
(* and the invocation answers 500 with the underlying message.             *)
(***************************************************************************)
C6_ReadErrorIsNotEmpty ==
    \A i \in Procs :
        (handler = "rotation" /\ CorrectHeader(i)
            /\ pc[i] \notin {"idle", "source", "source.quit"}) =>
            /\ ~NonEmpty(env.REDIS_URL) =>
                   /\ FailedWith500(i)
                   /\ Contains(res[i][1].body.error, "REDIS_URL")
                   /\ calls[i] = <<>>
                   /\ refreshToken[i] = Undefined
            /\ (ReadDone(i) /\ (calls[i][1].reply.threw \/ calls[i][2].reply.threw)) =>
                   /\ FailedWith500(i)
                   /\ res[i][1].body.error \in
                          {calls[i][k].reply.val : k \in {m \in 1..2 : calls[i][m].reply.threw}}
                   /\ Len(calls[i]) = 2
                   /\ refreshToken[i] = Undefined

\* redis.get was rejected while a seed was configured, and the invocation failed.
C6_Witness ==
    \E i \in Procs :
        /\ pc[i] = "done"
        /\ ReadDone(i)
        /\ calls[i][1].reply.threw
        /\ env.CLAUDE_REFRESH_TOKEN = Str("seed-1")
        /\ FailedWith500(i)

C8_MissingAccessTokenIsAnError ==
    \A i \in Procs : \A k \in DOMAIN calls[i] :
        (ExchangeSucceeded(i, k) /\ calls[i][k].reply.json.access_token = Undefined) =>
            /\ CallsOf(i, "fetch.chat") = {}
            /\ pc[i] = "done" => res[i][1].status = 500

(***************************************************************************)
(* C9. When the exchange reports a rotated refresh token and the store     *)
(* write fails (redis.set or the client's quit rejected), the invocation   *)
(* answers with the 500 failure response carrying the store's error, sends *)
(* no success response and makes no chat request.                          *)
(***************************************************************************)
C9_PersistFailureSurfaces ==
    \A i \in Procs : \A k \in CallsOf(i, "redis.set") :
        (pc[i] /= "persist.quit"
            /\ (calls[i][k].reply.threw \/ calls[i][k + 1].reply.threw)) =>
            /\ FailedWith500(i)
            /\ res[i][1].body.error \in
                   {calls[i][m].reply.val : m \in {n \in {k, k + 1} : calls[i][n].reply.threw}}
            /\ k + 1 = Len(calls[i])
            /\ CallsOf(i, "fetch.chat") = {}

\* A rotated token was handed to persistRefreshToken, redis.set was rejected, and
\* the invocation failed.
C9_Witness ==
    \E i \in Procs : \E k \in CallsOf(i, "redis.set") :
        /\ calls[i][k].reply.threw
        /\ calls[i][k].arg = Str("rotated-9")
        /\ FailedWith500(i)

(***************************************************************************)
(* C10. (Invocations one at a time.) If the chat request fails after a     *)
(* rotated refresh token was persisted, the invocation answers 500, the    *)
(* store holds the rotated token when it ends, and the next invocation     *)
(* whose store read succeeds resolves the rotated token.                   *)
(***************************************************************************)
\* Invocation i persisted `token` and then its chat request failed.
DispatchFailedAfterPersist(i, token) ==
    /\ pc[i] = "done"
    /\ \E k \in CallsOf(i, "redis.set") :
           /\ ~calls[i][k].reply.threw
           /\ ~calls[i][k + 1].reply.threw
           /\ calls[i][k].arg = token
    /\ \E k \in CallsOf(i, "fetch.chat") :
           calls[i][k].reply.rejected \/ calls[i][k].reply.status \notin 200..299

C10_RotationSurvivesDispatchFailure ==
    \A i \in Procs : \A token \in IssuedRefreshTokens :
        DispatchFailedAfterPersist(i, token) =>
            /\ FailedWith500(i)
            /\ clock = timestamp[i] => kv = token
            /\ \A j \in Procs \ {i} :
                   (timestamp[j] = timestamp[i] + 1 /\ \E v \in StoredTokens \cup
                        IssuedRefreshTokens : ReadReturned(j, v)) =>
                       /\ ReadReturned(j, token)
                       /\ refreshToken[j] = token

\* After such a failure the next invocation, with a different seed configured,
\* resolved the rotated token.
C10_Witness ==
    \E i \in Procs : \E j \in Procs \ {i} :
        /\ DispatchFailedAfterPersist(i, Str("rotated-9"))
        /\ timestamp[j] = timestamp[i] + 1
        /\ env.CLAUDE_REFRESH_TOKEN = Str("seed-1")
        /\ refreshToken[j] = Str("rotated-9")


(***************************************************************************)
(* C11 as stated: for every token string T, persistRefreshToken(T)         *)
(* followed immediately by resolveRefreshToken(), all store calls          *)
(* succeeding and no write in between, returns T, whatever                 *)
(* CLAUDE_REFRESH_TOKEN is.                                                *)
(***************************************************************************)
\* The steps before step k in which task t did `op` as an `ev` step.
StepsBefore(k, t, ev, op) ==
    {m \in 1..(k - 1) : events[m].task = t /\ events[m].ev = ev /\ events[m].op = op}

LastOf(S) == CHOOSE m \in S : \A n \in S : n <= m

\* Step p is the return of persistRefreshToken(token) and step r the return of a
\* resolveRefreshToken() that was called after step p; every store call of both
\* succeeded, and no other SET was applied between the SET of the one and the
\* GET of the other.
RoundTrip(p, r, token) ==
    /\ events[p].ev = "return"
    /\ events[p].op = "persistRefreshToken"
    /\ events[p].arg = token
    /\ ~events[p].result.threw
    /\ events[r].ev = "return"
    /\ events[r].op = "resolveRefreshToken"
    /\ StepsBefore(r, events[r].task, "await", "redis.get") /= {}
    /\ LET s == LastOf(StepsBefore(p, events[p].task, "await", "redis.set"))
           c == LastOf(StepsBefore(r, events[r].task, "call", "resolveRefreshToken"))
           g == LastOf(StepsBefore(r, events[r].task, "await", "redis.get"))
       IN /\ p < c
          /\ ~events[g].reply.threw
          /\ ~events[r].reply.threw
          /\ \A m \in (s + 1)..(g - 1) :
                 ~(events[m].op = "redis.set" /\ ~events[m].reply.threw)

C11_Original ==
    \A p \in DOMAIN events : \A r \in DOMAIN events : \A token \in PersistTokens :
        RoundTrip(p, r, token) => events[r].result = Ok(token)

(***************************************************************************)
(* C11 amended: for every NON-EMPTY token string T, persistRefreshToken(T) *)
(* followed immediately by resolveRefreshToken(), all store calls          *)
(* succeeding and no write in between, returns T, whatever                 *)
(* CLAUDE_REFRESH_TOKEN is.  After persistRefreshToken("") the resolve     *)
(* returns the bootstrap value, or fails when none is configured.          *)
(***************************************************************************)
C11_RoundTripNonEmpty ==
    \A p \in DOMAIN events : \A r \in DOMAIN events : \A token \in PersistTokens :
        RoundTrip(p, r, token) =>
            IF NonEmpty(token) THEN events[r].result = Ok(token)
            ELSE IF Truthy(env.CLAUDE_REFRESH_TOKEN)
            THEN events[r].result = Ok(env.CLAUDE_REFRESH_TOKEN)
            ELSE events[r].result.threw

\* 'rotated-9' was persisted with seed 'seed-1' configured, and the resolve
\* called after it returned 'rotated-9'.
C11_Witness ==
    \E p \in DOMAIN events : \E r \in DOMAIN events :
        /\ RoundTrip(p, r, Str("rotated-9"))
        /\ env.CLAUDE_REFRESH_TOKEN = Str("seed-1")
        /\ events[r].result = Ok(Str("rotated-9"))
        /\ kv = Str("rotated-9")


(***************************************************************************)
(* C14: sendWarmupMessage returns the text of the first content block of   *)
(* type "text", skipping earlier blocks of other types, and the sentinel   *)
(* "(no text)" when there is none; a non-success status makes it fail with *)
(* an error that contains the status.  (A fetch that is rejected makes it  *)
(* fail as well.)                                                          *)
(***************************************************************************)
\* The steps at which a sendWarmupMessage call returned or threw; the reply of
\* such a step is the outcome of its fetch.
SendCalls ==
    {k \in DOMAIN events : events[k].ev = "return" /\ events[k].op = "sendWarmupMessage"}

TextBlocks(content) == {k \in DOMAIN content : content[k].type = "text"}

ChatSucceeded(i) ==
    \E k \in CallsOf(i, "fetch.chat") :
        /\ ~calls[i][k].reply.rejected
        /\ calls[i][k].reply.status \in 200..299

C13_FailureEnvelope ==
    \A i \in Procs :
        (pc[i] = "done" /\ CorrectHeader(i)) =>
            /\ Len(res[i]) = 1
            /\ \/ FailedWith500(i) /\ ~ChatSucceeded(i)
               \/ /\ res[i][1].status = 200
                  /\ res[i][1].body.success = TRUE
                  /\ ChatSucceeded(i)

(***************************************************************************)
(* C15: within one invocation of the rotation handler the steps occur      *)
(* strictly in the order Gate, Source, Exchange, conditional Persistence,  *)
(* Dispatch, response; the store write has completed before the chat       *)
(* request is sent; the first failing step ends the invocation with the    *)
(* failure response and no later step is taken.                            *)
(***************************************************************************)
StepsWithoutRotation == <<"redis.get", "redis.quit", "fetch.token", "fetch.chat">>

StepsWithRotation ==
    <<"redis.get", "redis.quit", "fetch.token", "persistRefreshToken",
      "redis.set", "redis.quit", "fetch.chat">>

\* The operations invocation i has called so far are the first ones of `steps`.
CalledInOrder(i, steps) ==
    /\ Len(calls[i]) <= Len(steps)
    /\ \A k \in DOMAIN calls[i] : calls[i][k].op = steps[k]

\* Call k of invocation i failed: a store command or quit() threw, or a fetch
\* was rejected or answered with a non-2xx status.
CallFailed(i, k) ==
    IF calls[i][k].op \in {"redis.get", "redis.set", "redis.quit"}
    THEN calls[i][k].reply.threw
    ELSE IF calls[i][k].op \in {"fetch.token", "fetch.chat"}
    THEN calls[i][k].reply.rejected \/ calls[i][k].reply.status \notin 200..299
    ELSE FALSE

\* Invocation i is between the two awaits of one function: the quit of a
\* finally block, or the body of a response, is still pending.
AwaitingRest(i) == pc[i] \in {"source.quit", "exchange.body", "persist.quit", "dispatch.body"}

C15_StepsInOrder ==
    \A i \in Procs :
        handler = "rotation" =>
            /\ calls[i] /= <<>> => CorrectHeader(i)
            /\ CalledInOrder(i, StepsWithoutRotation) \/ CalledInOrder(i, StepsWithRotation)
            /\ \A k \in CallsOf(i, "fetch.chat") :
                   /\ \A m \in CallsOf(i, "redis.set") :
                          m + 1 < k /\ ~CallFailed(i, m) /\ ~CallFailed(i, m + 1)
                   /\ \A m \in CallsOf(i, "persistRefreshToken") :
                          CallsOf(i, "redis.set") = {m + 1}
            /\ \A k \in DOMAIN calls[i] :
                   CallFailed(i, k) =>
                       IF AwaitingRest(i)
                       THEN k = Len(calls[i])
                       ELSE /\ FailedWith500(i)
                            /\ \/ k = Len(calls[i])
                               \/ /\ k + 1 = Len(calls[i])
                                  /\ calls[i][k].op \in {"redis.get", "redis.set"}
                                  /\ calls[i][k + 1].op = "redis.quit"
            /\ (pc[i] = "done" /\ res[i][1].status = 200) =>
                   /\ calls[i][Len(calls[i])].op = "fetch.chat"
                   /\ ~CallFailed(i, Len(calls[i]))

\* An invocation went through all five steps, rotation included, and answered 200;
\* another one failed at the exchange and stopped there.
C15_Witness ==
    \E i, j \in Procs :
        /\ handler = "rotation"
        /\ pc[i] = "done"
        /\ res[i][1].status = 200
        /\ Len(calls[i]) = Len(StepsWithRotation)
        /\ CalledInOrder(i, StepsWithRotation)
        /\ pc[j] = "done"
        /\ Len(calls[j]) = 3
        /\ CallFailed(j, 3)
        /\ FailedWith500(j)

(***************************************************************************)
(* C16: an invocation issues at most one token-exchange request; a failed  *)
(* exchange is not retried.                                                *)
(***************************************************************************)
C16_AtMostOneExchange ==
    \A i \in Procs :
        /\ Cardinality(CallsOf(i, "fetch.token")) <= 1
        /\ \A k \in CallsOf(i, "fetch.token") :
               CallFailed(i, k) => pc[i] \in {"exchange.body", "done"} /\ k = Len(calls[i])

\* An exchange was answered 401 and the invocation ended with that one request.
C16_Witness ==
    \E i \in Procs :
        /\ CallsOf(i, "fetch.token") = {3}
        /\ calls[i][3].reply.status = 401
        /\ FailedWith500(i)


(***************************************************************************)
(* C12: over any sequence of invocations, overlapping or not, once an      *)
(* invocation has written a refresh token to the store, no later           *)
(* invocation whose store read succeeds uses CLAUDE_REFRESH_TOKEN: a write *)
(* leaves the store non-empty, a non-empty store stays non-empty, and a    *)
(* successful read of a non-empty store makes the invocation go on with    *)
(* the stored value.                                                       *)
(***************************************************************************)
\* In this step the redis.get of invocation j was answered with a value.
GetAnsweredNow(j) ==
    /\ pc[j] = "source"
    /\ pc'[j] = "source.quit"
    /\ ~calls'[j][1].reply.threw

\* In this step invocation j left resolveRefreshToken after a store read whose
\* get and quit both succeeded.
ReadSucceededNow(j) ==
    /\ pc[j] = "source.quit"
    /\ pc'[j] /= "source.quit"
    /\ ~calls'[j][1].reply.threw
    /\ ~calls'[j][2].reply.threw

C12_BootstrapOnlyWhileStoreEmpty ==
    [][ /\ kv' /= kv => NonEmpty(kv')
        /\ NonEmpty(kv) => NonEmpty(kv')
        /\ \A j \in Procs :
               /\ (GetAnsweredNow(j) /\ NonEmpty(kv)) => calls'[j][1].reply.val = kv
               /\ (ReadSucceededNow(j) /\ NonEmpty(calls[j][1].reply.val)) =>
                      /\ refreshToken'[j] = calls[j][1].reply.val
                      /\ pc'[j] = "exchange"
      ]_vars

\* Invocation i wrote 'rotated-9' into an empty store; invocation j, started
\* after that write with 'seed-1' configured, read it and goes on with it.
C12_Witness ==
    \E i, j \in Procs :
        /\ i /= j
        /\ env.CLAUDE_REFRESH_TOKEN = Str("seed-1")
        /\ ReadReturned(i, Null)
        /\ refreshToken[i] = Str("seed-1")
        /\ \E k \in CallsOf(i, "redis.set") :
               calls[i][k].arg = Str("rotated-9") /\ ~calls[i][k].reply.threw
        /\ ReadReturned(j, Str("rotated-9"))
        /\ refreshToken[j] = Str("rotated-9")
        /\ pc[j] = "exchange"

(***************************************************************************)
(* C17: the value under the key changes only by the Persistence write of   *)
(* an authenticated rotation invocation, and the value written is the      *)
(* non-empty refresh token that this invocation's own exchange returned    *)
(* (its refresh_token field, different from the token sent); every other   *)
(* step,                                                                   *)
(* the gate rejection and the no-rotation handler included, leaves the     *)
(* store as it is, and the key is never deleted or emptied.                *)
(***************************************************************************)
\* In this step invocation i overwrote the key with the refresh token its
\* exchange returned.
PersistenceWriteOf(i) ==
    /\ handler = "rotation"
    /\ CorrectHeader(i)
    /\ pc[i] = "persist"
    /\ CallsOf(i, "fetch.token") = {3}
    /\ ExchangeSucceeded(i, 3)
    /\ kv' = calls[i][3].reply.json.refresh_token
    /\ kv' /= calls[i][3].arg
    /\ NonEmpty(kv')
    /\ Len(calls'[i]) = 5
    /\ calls'[i][5] = Call("redis.set", kv', Ok(Str("OK")))
    /\ pc'[i] = "persist.quit"

\* This step was taken by invocation i (the arrival of its request included).
StepOf(i) == pc'[i] /= pc[i] \/ calls'[i] /= calls[i] \/ res'[i] /= res[i]

C17_OnlyPersistenceWrites ==
    [][ /\ kv' /= kv => \E i \in Procs : PersistenceWriteOf(i)
        /\ kv /= Null => kv' /= Null
        /\ NonEmpty(kv) => NonEmpty(kv')
        /\ \A i \in Procs :
               (pc[i] /= "persist" /\ StepOf(i)) => kv' = kv
      ]_vars

\* The store went from 'stored-7' to 'rotated-9' by the write of one
\* invocation, while another was rejected at the gate and one failed at the
\* exchange before persisting.
C17_Witness ==
    \E i, j \in Procs :
        /\ i /= j
        /\ kv = Str("rotated-9")
        /\ ReadReturned(i, Str("stored-7"))
        /\ \E k \in CallsOf(i, "redis.set") :
               calls[i][k] = Call("redis.set", Str("rotated-9"), Ok(Str("OK")))
        /\ pc[j] = "done"
        /\ res[j][1].status \in {401, 500}
        /\ CallsOf(j, "redis.set") = {}


(***************************************************************************)
(* C18: nothing serialises overlapping invocations: each Persistence write *)
(* overwrites the key with its own rotated token whatever the store holds  *)
(* and whatever the provider expects by then (last write wins).  So two    *)
(* overlapping invocations can read and submit the same token, be granted  *)
(* different rotated tokens, and finish with the store holding a token     *)
(* that is not the one the provider expects next (the witness).            *)
(***************************************************************************)
C18_LastWriteWins ==
    [][ \A i \in Procs :
            (pc[i] = "persist" /\ pc'[i] /= "persist") =>
                /\ kv' = newRefreshToken[i]
                /\ \A j \in Procs \ {i} : pc'[j] = pc[j] /\ res'[j] = res[j]
      ]_vars

\* Both invocations read 'stored-7', both sent it, the provider granted
\* 'rotated-1' to one and 'rotated-2' to the other, both wrote and both have
\* finished: the store holds 'rotated-1' while the provider expects 'rotated-2'.
C18_Witness ==
    \E i, j \in Procs :
        /\ i /= j
        /\ pc[i] = "done" /\ pc[j] = "done"
        /\ Len(calls[i]) >= 6 /\ Len(calls[j]) >= 6
        /\ ReadReturned(i, Str("stored-7")) /\ ReadReturned(j, Str("stored-7"))
        /\ ExchangeSucceeded(i, 3) /\ ExchangeSucceeded(j, 3)
        /\ calls[i][3].arg = Str("stored-7") /\ calls[j][3].arg = Str("stored-7")
        /\ calls[i][5] = Call("redis.set", Fresh(1), Ok(Str("OK")))
        /\ calls[j][5] = Call("redis.set", Fresh(2), Ok(Str("OK")))
        /\ kv = Fresh(1)
        /\ provider.expected = Fresh(2)

(***************************************************************************)
(* C19 as stated: a failure caused by overlapping invocations is           *)
(* transient: once two overlapping invocations have finished, the next     *)
(* invocation, running alone with the store and the provider reachable,    *)
(* resolves a token the provider accepts and, the chat request succeeding, *)
(* answers 200, without any re-seeding.                                    *)
(***************************************************************************)
\* Invocation i is the one of the next period and has finished.
NextPeriodDone(i) == pc[i] = "done" /\ timestamp[i] = MaxInvocations + 1

C19_NextPeriodSucceeds ==
    \A i \in Procs :
        NextPeriodDone(i) =>
            /\ CallsOf(i, "fetch.token") = {3}
            /\ ExchangeSucceeded(i, 3)
            /\ calls[i][3].arg = refreshToken[i]
            /\ (CallsOf(i, "fetch.chat") /= {} /\ ChatSucceeded(i)) => res[i][1].status = 200
            /\ res[i][1].status = 500 => CallsOf(i, "fetch.chat") /= {}

(***************************************************************************)
(* C20 as stated: in any sequence of non-overlapping invocations against a *)
(* provider that replaces the refresh token on every exchange, every store *)
(* call succeeding and the first token being valid, whenever no invocation *)
(* is in flight the token resolveRefreshToken would return is the token    *)
(* the provider accepts; so no exchange is refused for a stale token.      *)
(***************************************************************************)
\* The store (or the bootstrap value, the store being empty) holds the token the
\* provider accepts next.
StoreTracksProvider ==
    /\ ~WouldResolve.threw
    /\ WouldResolve.val = provider.expected

\* No exchange that reached the handler was refused.
NoExchangeRefused ==
    \A i \in Procs : \A k \in CallsOf(i, "fetch.token") :
        calls[i][k].reply.rejected \/ calls[i][k].reply.status = 200

C20_Original ==
    /\ (\A i \in Procs : ~InFlight(i)) => StoreTracksProvider
    /\ NoExchangeRefused

(***************************************************************************)
(* C20 amended: in any sequence of non-overlapping invocations against a   *)
(* provider that replaces the refresh token on every exchange, every store *)
(* call succeeding, the first token being valid AND EVERY ANSWER IN WHICH  *)
(* THE PROVIDER GRANTS A TOKEN REACHING THE HANDLER (not lost in transit,  *)
(* its body readable), whenever no invocation is in flight the token       *)
(* resolveRefreshToken would return is the token the provider accepts; so  *)
(* no exchange is refused for a stale token.                               *)
(***************************************************************************)
C20_StoreTracksProvider ==
    ~provider.lost =>
        /\ (\A i \in Procs : ~InFlight(i)) => StoreTracksProvider
        /\ NoExchangeRefused

\* Two invocations in a row, the first with the bootstrap token: each was
\* granted a new token and persisted it, and the store holds the second one.
C20_Witness ==
    \E i, j \in Procs :
        /\ \A n \in Procs : ~InFlight(n)
        /\ Len(calls[i]) >= 6 /\ Len(calls[j]) >= 6
        /\ ReadReturned(i, Null)
        /\ calls[i][3].arg = Str("seed-1")
        /\ calls[i][5] = Call("redis.set", Fresh(1), Ok(Str("OK")))
        /\ ReadReturned(j, Fresh(1))
        /\ calls[j][3].arg = Fresh(1)
        /\ calls[j][5] = Call("redis.set", Fresh(2), Ok(Str("OK")))
        /\ kv = Fresh(2)
        /\ provider.expected = Fresh(2)
        /\ provider.issued = 2
        /\ ~provider.lost

====
